---------------------------- MODULE Spec2Model ----------------------------
(***************************************************************************)
(* A model of the RSI alert bot of src/main.py: the configuration read at  *)
(* import, the Wilder RSI calculator, the Telegram sender with its         *)
(* de-duplication cache, the CSV logger, the time-series fetch and the     *)
(* run-forever driver loop bot_loop.                                       *)
(*                                                                         *)
(* Conventions.                                                            *)
(*  - An optional value (Python None or a value) is a sequence of length   *)
(*    0 or 1: None is << >>, the value v is <<v>>.                         *)
(*  - RSI values and thresholds are integers in hundredths (round(x, 2)).  *)
(*  - A symbol is a sequence of one-character strings, so that the         *)
(*    replace() calls of log_csv act on it.                                *)
(*  - clock is the wall clock in whole seconds since the epoch; time.time()*)
(*    and datetime.now(IST) both read it.                                  *)
(***************************************************************************)
EXTENDS Integers, Sequences, FiniteSets, TLC

None == << >>
Some(v) == <<v>>
Val(o) == o[1]

----------------------------------------------------------------------------
(* Bounds of the model *)

\* the driver starts no evaluation pass after this many passes
MaxPasses == 3
\* the outside world acts at most this many times in one run: a usable
\* reading of the data source, a timeout of the data source, a failed post, a
\* failed file operation, an unexpected exception in the pass
MaxEvents == 3
\* the harness of send_telegram makes calls while the clock is below this
MaxSendClock == 70
\* the harness of log_csv makes at most this many calls
MaxLogCalls == 3
\* the series handed to the calculator on its own: every series of at most
\* MaxSeriesLen closes, each a price in 1..MaxPrice, with every period in
\* 1..MaxPeriod
MaxSeriesLen == 5
MaxPrice == 3
MaxPeriod == 3

----------------------------------------------------------------------------
(* Program constants *)

RSI_PERIOD == 14
DefaultUpper == 60
DefaultLower == 40
DefaultCheckInterval == 60
DefaultCooldown == 30
ErrorDelay == 5
ClientTimeout == 15
LowRemaining == 20
\* round(rsi, 2): values are kept in hundredths
Scale == 100
\* Asia/Kolkata is UTC+05:30
IstOffset == 19800
SecondsPerDay == 86400
Header == <<"DateTime", "Symbol", "Timeframe", "RSI", "Price", "Direction">>

----------------------------------------------------------------------------
(* Arithmetic helpers *)

Abs(x) == IF x < 0 THEN -x ELSE x
Max(a, b) == IF a >= b THEN a ELSE b

\* Python round(): the nearest integer to n/d (d > 0, n >= 0), ties to even
RoundHalfEven(n, d) ==
    LET q == n \div d
        r == n % d
    IN  IF 2 * r > d THEN q + 1
        ELSE IF 2 * r < d THEN q
        ELSE IF q % 2 = 0 THEN q ELSE q + 1

\* reversed(data["values"])
RECURSIVE Reversed(_)
Reversed(s) == IF s = << >> THEN << >> ELSE Append(Reversed(Tail(s)), Head(s))

----------------------------------------------------------------------------
(* RSI CALCULATION (Wilder method), in exact arithmetic.  closes is         *)
(* 1-indexed here: Python's closes[i] is closes[i + 1].                     *)

\* SeedSums with a slip: the size of every change is counted as a loss
RECURSIVE SeedSums_AbsAsLoss(_, _)
SeedSums_AbsAsLoss(closes, i) ==
    IF i = 0 THEN [gain |-> 0, loss |-> 0]
    ELSE LET rest == SeedSums_AbsAsLoss(closes, i - 1)
             change == closes[i + 1] - closes[i]
         IN  IF change >= 0
             THEN [gain |-> rest.gain + change, loss |-> rest.loss + Abs(change)]
             ELSE [gain |-> rest.gain, loss |-> rest.loss + Abs(change)]

\* lines 48-58 and the sums of lines 60-61: the gains and losses of the first
\* period changes
RECURSIVE SeedSums(_, _)
SeedSums(closes, i) ==
    IF i = 0 THEN [gain |-> 0, loss |-> 0]
    ELSE LET rest == SeedSums(closes, i - 1)
             change == closes[i + 1] - closes[i]
         IN  IF change >= 0
             THEN [gain |-> rest.gain + change, loss |-> rest.loss]
             ELSE [gain |-> rest.gain, loss |-> rest.loss + Abs(change)]

\* lines 63-69: the smoothing recurrence from Python index i on; the averages
\* are avg.gain / avg.den and avg.loss / avg.den
RECURSIVE Smooth(_, _, _, _)
Smooth(avg, closes, period, i) ==
    IF i >= Len(closes) THEN avg
    ELSE LET change == closes[i + 1] - closes[i]
             gain == Max(change, 0)
             loss == Max(-change, 0)
         IN  Smooth([gain |-> avg.gain * (period - 1) + gain * avg.den,
                     loss |-> avg.loss * (period - 1) + loss * avg.den,
                     den  |-> avg.den * period],
                    closes, period, i + 1)

\* lines 48-69: avg_gain and avg_loss after the loop, as gain / den and
\* loss / den (Len(closes) >= period + 1)
Averages(closes, period) ==
    LET seed == SeedSums(closes, period)
    IN  Smooth([gain |-> seed.gain, loss |-> seed.loss, den |-> period],
               closes, period, period + 1)

\* calculate_rsi with a slip in line 45: one close more is asked for
calculate_rsi_OneMore(closes, period) ==
    IF Len(closes) < period + 2 THEN None
    ELSE LET avg == Averages(closes, period)
         IN  IF avg.loss = 0 THEN Some(100 * Scale)
             ELSE LET onePlusRsNum == avg.loss + avg.gain
                      rsiNum == 100 * onePlusRsNum - 100 * avg.loss
                  IN  Some(RoundHalfEven(Scale * rsiNum, onePlusRsNum))

\* calculate_rsi with a slip in line 75: the relative strength itself is
\* returned, as a percentage
calculate_rsi_RsAsPercent(closes, period) ==
    IF Len(closes) < period + 1 THEN None
    ELSE LET avg == Averages(closes, period)
         IN  IF avg.loss = 0 THEN Some(100 * Scale)
             ELSE Some(RoundHalfEven(Scale * 100 * avg.gain, avg.loss))

\* the result in hundredths, or None
calculate_rsi(closes, period) ==
    IF Len(closes) < period + 1 THEN None
    ELSE LET avg == Averages(closes, period)
         IN  IF avg.loss = 0 THEN Some(100 * Scale)
             ELSE \* rs = gain/loss; rsi = 100 - 100 / (1 + rs)
                  LET onePlusRsNum == avg.loss + avg.gain   \* over avg.loss
                      rsiNum == 100 * onePlusRsNum - 100 * avg.loss
                  IN  Some(RoundHalfEven(Scale * rsiNum, onePlusRsNum))

----------------------------------------------------------------------------
(* TELEGRAM SAFE SEND *)

\* client.post returns, or raises (a connection error, a timeout)
PostOutcomes == {"ok", "error"}

\* send_telegram without line 97: the post is not remembered
send_telegram_forgetful(cache, message, now, cooldown, post) ==
    IF message \in DOMAIN cache /\ now - cache[message] < cooldown
    THEN [cache |-> cache, tried |-> FALSE, posted |-> FALSE, raised |-> FALSE]
    ELSE [cache |-> cache, tried |-> TRUE, posted |-> post = "ok",
          raised |-> FALSE]

\* send_telegram without its try/except: a failed post raises into the caller
send_telegram_unguarded(cache, message, now, cooldown, post) ==
    IF message \in DOMAIN cache /\ now - cache[message] < cooldown
    THEN [cache |-> cache, tried |-> FALSE, posted |-> FALSE, raised |-> FALSE]
    ELSE IF post = "ok"
    THEN [cache |-> (message :> now) @@ cache, tried |-> TRUE, posted |-> TRUE,
          raised |-> FALSE]
    ELSE [cache |-> cache, tried |-> TRUE, posted |-> FALSE, raised |-> TRUE]

\* send_telegram with line 97 moved before the post, and run for a suppressed
\* call too: every call stamps the cache
send_telegram_stamping(cache, message, now, cooldown, post) ==
    IF message \in DOMAIN cache /\ now - cache[message] < cooldown
    THEN [cache |-> (message :> now) @@ cache, tried |-> FALSE, posted |-> FALSE,
          raised |-> FALSE]
    ELSE [cache |-> (message :> now) @@ cache, tried |-> TRUE,
          posted |-> post = "ok", raised |-> FALSE]

\* send_telegram(message, cooldown) called when time.time() reads now and
\* client.post ends as post.  posted: the post was made and returned;
\* tried: client.post was called; raised: an exception left the call.
send_telegram(cache, message, now, cooldown, post) ==
    IF message \in DOMAIN cache /\ now - cache[message] < cooldown
    THEN [cache |-> cache, tried |-> FALSE, posted |-> FALSE, raised |-> FALSE]
    ELSE IF post = "ok"
    THEN [cache |-> (message :> now) @@ cache, tried |-> TRUE, posted |-> TRUE,
          raised |-> FALSE]
    ELSE \* line 99: the exception of the post is caught and printed
         [cache |-> cache, tried |-> TRUE, posted |-> FALSE, raised |-> FALSE]

----------------------------------------------------------------------------
(* CSV LOGGER *)

\* str.replace(old, new) on a one-character old
Replace(s, old, new) == [i \in 1..Len(s) |-> IF s[i] = old THEN new ELSE s[i]]

SafeSymbol(symbol) == Replace(Replace(symbol, "/", "_"), ":", "_")

\* datetime.now(IST).date() as a day number
IstDate(clk) == (clk + IstOffset) \div SecondsPerDay

\* datetime.now(IST).strftime("%Y-%m-%d %H:%M:%S"): the day and its second
NowString(clk) == <<IstDate(clk), (clk + IstOffset) % SecondsPerDay>>

FileName(symbol, clk) == <<SafeSymbol(symbol), IstDate(clk)>>

HeaderRow == [kind |-> "header", cells |-> Header]
DataRow(clk, symbol, timeframe, rsi, price, direction) ==
    [kind |-> "data",
     cells |-> <<NowString(clk), symbol, timeframe, rsi, price, direction>>]

\* the outcome of the file I/O of one call: open() raises, or that many of the
\* rows handed to the writer reach the file before a write raises (all of them:
\* the call succeeds)
OpenError == -1
LogOutcomes == {OpenError, 0, 1, 2}

\* the rows one call hands to the writer (lines 115-119)
RowsToWrite(files, symbol, timeframe, rsi, price, direction, clk) ==
    LET file_exists == FileName(symbol, clk) \in DOMAIN files
        row == DataRow(clk, symbol, timeframe, rsi, price, direction)
    IN  IF file_exists THEN <<row>> ELSE <<HeaderRow, row>>

\* log_csv(symbol, timeframe, rsi, price, direction) called at clock clk on
\* the files of the working directory (file name -> rows), its I/O ending as
\* io.  ok: no exception was raised inside; raised: an exception left the call
\* (line 121 catches them all).
log_csv(files, symbol, timeframe, rsi, price, direction, clk, io) ==
    LET filename == FileName(symbol, clk)
        rows == RowsToWrite(files, symbol, timeframe, rsi, price, direction, clk)
        old == IF filename \in DOMAIN files THEN files[filename] ELSE << >>
        n == IF io >= Len(rows) THEN Len(rows) ELSE io
    IN  IF io = OpenError
        THEN [files |-> files, ok |-> FALSE, raised |-> FALSE]
        ELSE [files |-> (filename :> (old \o SubSeq(rows, 1, n))) @@ files,
              ok |-> n = Len(rows), raised |-> FALSE]

----------------------------------------------------------------------------
(* ENV CONFIG *)

\* str.split(sep) on a sequence of characters: the fields between the
\* separators, in order (always at least one field)
RECURSIVE Split(_, _)
Split(s, sep) ==
    IF \A i \in 1..Len(s) : s[i] # sep THEN <<s>>
    ELSE LET k == CHOOSE i \in 1..Len(s) :
                      s[i] = sep /\ \A j \in 1..(i - 1) : s[j] # sep
         IN  <<SubSeq(s, 1, k - 1)>> \o Split(SubSeq(s, k + 1, Len(s)), sep)

\* the timeframe strings the driver compares with, and one it does not know
TF5 == <<"5", "m", "i", "n">>
TF15 == <<"1", "5", "m", "i", "n">>
TF30 == <<"3", "0", "m", "i", "n">>
DefaultTimeframesEnv == TF5 \o <<",">> \o TF15

\* the environments the model starts from.  A variable of the environment is
\* None when it is not set.  BaseEnv sets what has no default; each other
\* environment changes one or two of its variables.
BaseEnv ==
    [TWELVEDATA_API_KEY |-> Some("key"), TELEGRAM_BOT_TOKEN |-> Some("token"),
     TELEGRAM_CHAT_ID |-> Some("chat"), SYMBOLS |-> Some(<<"A", "/", "B">>),
     TIMEFRAMES |-> None, RSI_UPPER |-> None, RSI_LOWER |-> None,
     CHECK_INTERVAL |-> None]
Envs ==
    { BaseEnv,
      [BaseEnv EXCEPT !.SYMBOLS = Some(<<"A", "/", "B", ",", "C">>),
                      !.TIMEFRAMES = Some(TF5)],
      [BaseEnv EXCEPT !.TIMEFRAMES = Some(TF30)],
      [BaseEnv EXCEPT !.CHECK_INTERVAL = Some(300)],
      [BaseEnv EXCEPT !.RSI_UPPER = Some(40), !.RSI_LOWER = Some(60)],
      [BaseEnv EXCEPT !.RSI_LOWER = Some(60)],
      [BaseEnv EXCEPT !.SYMBOLS = None],
      [BaseEnv EXCEPT !.TWELVEDATA_API_KEY = None] }
\* the clock when the process starts: 06:00:00 IST
StartClocks == {1800}

\* os.getenv(name, default)
GetEnv(e, name, default) == IF e[name] = None THEN default ELSE Val(e[name])

----------------------------------------------------------------------------
(* The state *)

VARIABLES
    env,                      \* os.environ
    pc,                       \* where the process is
    clock,                    \* the wall clock, in seconds
    \* the configuration (module globals, lines 13-24)
    API_KEY, BOT_TOKEN, CHAT_ID, SYMBOLS, TIMEFRAMES,
    RSI_UPPER, RSI_LOWER, CHECK_INTERVAL,
    \* GLOBAL STATE (lines 32-35)
    last_alert_state, telegram_cache, api_rate_remaining,
    rate_limit_warning_sent,
    files,                    \* the CSV files of the working directory
    \* the locals of bot_loop
    minute, ti, si, rsi, price, prev_state, msg, direction,
    \* history, read by the properties only
    passes,                   \* evaluation passes started
    events,                   \* acts of the outside world so far
    prevClass,                \* key -> classification of its previous reading
    calls,                    \* the dispatch calls of the current evaluation
    fetched,                  \* the fetches of the current pass, per pair
    lastPost,                 \* message -> the clock read by its last post
    lastCall,                 \* the last call of send_telegram by SendCall
    logCalls,                 \* calls made by LogCall
    rsiCall                   \* the series handed to the calculator by FetchSeries

config == <<API_KEY, BOT_TOKEN, CHAT_ID, SYMBOLS, TIMEFRAMES,
            RSI_UPPER, RSI_LOWER, CHECK_INTERVAL>>
globals == <<last_alert_state, telegram_cache, api_rate_remaining,
             rate_limit_warning_sent, files>>
locals == <<minute, ti, si, rsi, price, prev_state, msg, direction>>
history == <<passes, events, prevClass, calls, fetched, lastPost, lastCall,
             logCalls, rsiCall>>
vars == <<env, pc, clock, config, globals, locals, history>>

NoCalls == [sends |-> << >>, logs |-> << >>, warns |-> 0]

\* no series is handed to the calculator on its own
NoRsiCall == [closes |-> << >>, period |-> 0, called |-> FALSE, result |-> None]

\* the state before the module is loaded, for an environment and a clock,
\* but for rsiCall
InitBase(e, c) ==
    /\ env = e
    /\ pc = "load"
    /\ clock = c
    /\ API_KEY = None /\ BOT_TOKEN = None /\ CHAT_ID = None
    /\ SYMBOLS = << >> /\ TIMEFRAMES = << >>
    /\ RSI_UPPER = 0 /\ RSI_LOWER = 0 /\ CHECK_INTERVAL = 0
    /\ last_alert_state = << >>
    /\ telegram_cache = << >>
    /\ api_rate_remaining = "N/A"
    /\ rate_limit_warning_sent = FALSE
    /\ files = << >>
    /\ minute = 0 /\ ti = 0 /\ si = 0
    /\ rsi = None /\ price = None
    /\ prev_state = "neutral" /\ msg = None /\ direction = "none"
    /\ passes = 0 /\ events = 0
    /\ prevClass = << >>
    /\ calls = NoCalls
    /\ fetched = << >>
    /\ lastPost = << >>
    /\ lastCall = None
    /\ logCalls = 0

InitWith(e, c) == InitBase(e, c) /\ rsiCall = NoRsiCall

Init == \E e \in Envs, c \in StartClocks : InitWith(e, c)

\* lines 13-37 and 255-256: the module is loaded and the loop is entered.
\* os.getenv("SYMBOLS") is None when unset, and None.split raises.
LoadConfig ==
    /\ pc = "load"
    /\ IF env.SYMBOLS = None
       THEN /\ pc' = "crashed"
            /\ API_KEY' = env.TWELVEDATA_API_KEY
            /\ BOT_TOKEN' = env.TELEGRAM_BOT_TOKEN
            /\ CHAT_ID' = env.TELEGRAM_CHAT_ID
            /\ UNCHANGED <<SYMBOLS, TIMEFRAMES, RSI_UPPER, RSI_LOWER,
                           CHECK_INTERVAL>>
       ELSE /\ pc' = "pass"
            /\ API_KEY' = env.TWELVEDATA_API_KEY
            /\ BOT_TOKEN' = env.TELEGRAM_BOT_TOKEN
            /\ CHAT_ID' = env.TELEGRAM_CHAT_ID
            /\ SYMBOLS' = Split(Val(env.SYMBOLS), ",")
            /\ TIMEFRAMES' = Split(GetEnv(env, "TIMEFRAMES", DefaultTimeframesEnv), ",")
            /\ RSI_UPPER' = Scale * GetEnv(env, "RSI_UPPER", DefaultUpper)
            /\ RSI_LOWER' = Scale * GetEnv(env, "RSI_LOWER", DefaultLower)
            /\ CHECK_INTERVAL' = GetEnv(env, "CHECK_INTERVAL", DefaultCheckInterval)
    /\ UNCHANGED <<env, clock, globals, locals, history>>

----------------------------------------------------------------------------
(* FETCH TIME SERIES ONCE *)

\* the X-RateLimit-Remaining header of a response, when it carries one
RemainingHeaders == {None, Some("10"), Some("50")}

\* a series of RSI_PERIOD + 1 closes, oldest first: from 100, ups rises of 1,
\* then downs falls of 1, then flat
Closes(ups, downs) ==
    [i \in 1..(RSI_PERIOD + 1) |->
        100 + (IF i - 1 <= ups THEN i - 1 ELSE ups)
            - (IF i - 1 <= ups THEN 0
               ELSE IF i - 1 - ups <= downs THEN i - 1 - ups ELSE downs)]

\* the "values" of a response body, newest first as the API sends them
ValueLists ==
    { Reversed(Closes(7, 3)), Reversed(Closes(6, 4)), Reversed(Closes(5, 5)),
      Reversed(Closes(4, 6)), Reversed(Closes(3, 7)),
      Reversed(SubSeq(Closes(7, 3), 1, 3)), << >> }

\* what client.get can end as: a timeout, or a response whose JSON body has a
\* "values" list or none
Reply(h, v) == [kind |-> "reply", remaining |-> h, values |-> v]
Responses ==
    { [kind |-> "timeout", remaining |-> None, values |-> None], Reply(None, None) }
    \cup { Reply(None, Some(l)) : l \in ValueLists }
    \cup { Reply(h, Some(Reversed(Closes(7, 3)))) : h \in RemainingHeaders }

FetchDuration(resp) == IF resp.kind = "timeout" THEN ClientTimeout ELSE 0

\* fetch_data without its try/except: a timeout of client.get raises into
\* the caller
fetch_data_unguarded(resp, remaining) ==
    IF resp.kind = "timeout"
    THEN [rsi |-> None, price |-> None, api_rate_remaining |-> remaining,
          raised |-> TRUE]
    ELSE LET header == IF resp.remaining = None THEN "N/A" ELSE Val(resp.remaining)
             closes == IF resp.values = None THEN << >>
                       ELSE Reversed(Val(resp.values))
         IN  IF closes = << >>
             THEN [rsi |-> None, price |-> None, api_rate_remaining |-> header,
                   raised |-> FALSE]
             ELSE [rsi |-> calculate_rsi(closes, RSI_PERIOD),
                   price |-> Some(closes[Len(closes)]),
                   api_rate_remaining |-> header, raised |-> FALSE]

\* fetch_data(symbol, timeframe) when client.get ends as resp; remaining is
\* api_rate_remaining before the call
fetch_data(resp, remaining) ==
    IF resp.kind = "timeout"
    THEN \* client.get raises: lines 160-162
         [rsi |-> None, price |-> None, api_rate_remaining |-> remaining,
          raised |-> FALSE]
    ELSE LET header == IF resp.remaining = None THEN "N/A" ELSE Val(resp.remaining)
         IN  IF resp.values = None
             THEN [rsi |-> None, price |-> None, api_rate_remaining |-> header,
                   raised |-> FALSE]
             ELSE LET closes == Reversed(Val(resp.values))
                  IN  IF closes = << >>
                      THEN \* closes[-1] raises IndexError: lines 160-162
                           [rsi |-> None, price |-> None,
                            api_rate_remaining |-> header, raised |-> FALSE]
                      ELSE [rsi |-> calculate_rsi(closes, RSI_PERIOD),
                            price |-> Some(closes[Len(closes)]),
                            api_rate_remaining |-> header, raised |-> FALSE]

----------------------------------------------------------------------------
(* MAIN LOOP *)

\* datetime.now(IST).minute
IstMinute(clk) == ((clk + IstOffset) \div 60) % 60

\* Skipped with a third rule: a timeframe the driver does not know is passed
\* over at every minute
Skipped_UnknownPassedOver(timeframe, m) ==
    \/ timeframe = TF5 /\ m % 5 # 0
    \/ timeframe = TF15 /\ m % 15 # 0
    \/ timeframe \notin {TF5, TF15}

\* lines 181-185: the timeframe is passed over at this minute
Skipped(timeframe, m) ==
    \/ timeframe = TF5 /\ m % 5 # 0
    \/ timeframe = TF15 /\ m % 15 # 0

\* line 194 with a slip: the key leaves the timeframe out
Key_SymbolOnly(symbol, timeframe) == symbol

\* line 194: f"{symbol}_{timeframe}"
Key(symbol, timeframe) == symbol \o <<"_">> \o timeframe

\* dict.get(key, default)
Get(d, key, default) == IF key \in DOMAIN d THEN d[key] ELSE default

\* int(api_rate_remaining), None when it raises (line 205 passes over it)
IntOf(s) == IF s = "10" THEN Some(10) ELSE IF s = "50" THEN Some(50) ELSE None

\* line 200 without the flag
WarningDue_FlagIgnored(remaining, sent) ==
    /\ IntOf(remaining) # None
    /\ Val(IntOf(remaining)) < LowRemaining

\* line 200
WarningDue(remaining, sent) ==
    /\ IntOf(remaining) # None
    /\ Val(IntOf(remaining)) < LowRemaining
    /\ ~sent

WarningText(remaining) == <<"API Remaining Low", Val(IntOf(remaining))>>

\* lines 211-218 and 228-235: the text of an alert
AlertText(dir, symbol, timeframe, r, p, remaining) ==
    <<"RSI ALERT", dir, symbol, timeframe, r, p, remaining>>

\* Branch with a slip: a BELOW alert is raised from the neutral state only
Branch_BelowFromNeutralOnly(r, upper, lower, prev) ==
    IF r > upper /\ prev # "above" THEN "ABOVE"
    ELSE IF r < lower /\ prev = "neutral" THEN "BELOW"
    ELSE "none"

\* lines 209, 226 and 242: the branch taken for a reading r
Branch(r, upper, lower, prev) ==
    IF r > upper /\ prev # "above" THEN "ABOVE"
    ELSE IF r < lower /\ prev # "below" THEN "BELOW"
    ELSE "none"

\* lines 223 and 240 storing the state an alert leaves the key to be raised
\* from again
StateOf_Neutral(dir) == "neutral"

\* lines 223 and 240: the state stored after an alert
StateOf(dir) == IF dir = "ABOVE" THEN "above" ELSE "below"

\* line 243: the state stored when no alert is raised
NoAlertState == "neutral"

\* the handler of line 247 placed around the while loop: the loop is left
AfterError_LoopLeft == "crashed"

\* lines 174 and 247-249: after the delay the while loop goes round again
AfterError == "pass"

\* the classification of a reading (spec 4.2, in its priority order)
Classify(r, upper, lower) ==
    IF r > upper THEN "above" ELSE IF r < lower THEN "below" ELSE "neutral"

\* the locals of one evaluation are dead once it is over (each is assigned
\* again before it is read): they are cleared, with the record of its calls
EvaluationOver ==
    /\ rsi' = None /\ price' = None
    /\ prev_state' = "neutral" /\ msg' = None /\ direction' = "none"
    /\ calls' = NoCalls

Symbol == SYMBOLS[si]
Timeframe == TIMEFRAMES[ti]
CurrentKey == Key(Symbol, Timeframe)

\* lines 176-177 and the head of the timeframe loop
PassStart ==
    /\ pc = "pass"
    /\ passes < MaxPasses
    /\ passes' = passes + 1
    /\ minute' = IstMinute(clock)
    /\ ti' = 1
    /\ fetched' = << >>
    /\ pc' = "timeframe"
    /\ UNCHANGED <<env, clock, config, globals, si, rsi, price, prev_state,
                   msg, direction, events, prevClass, calls, lastPost, lastCall, logCalls, rsiCall>>

\* lines 181-185: continue
TimeframeSkip ==
    /\ pc = "timeframe"
    /\ ti <= Len(TIMEFRAMES)
    /\ Skipped(Timeframe, minute)
    /\ ti' = ti + 1
    /\ UNCHANGED <<env, pc, clock, config, globals, minute, si, rsi, price,
                   prev_state, msg, direction, history>>

\* line 187: the symbols of a timeframe that is not passed over
TimeframeDue ==
    /\ pc = "timeframe"
    /\ ti <= Len(TIMEFRAMES)
    /\ ~Skipped(Timeframe, minute)
    /\ si' = 1
    /\ pc' = "symbol"
    /\ UNCHANGED <<env, clock, config, globals, minute, ti, rsi, price,
                   prev_state, msg, direction, history>>

\* the timeframe loop is over: line 245 is next
PassEnd ==
    /\ pc = "timeframe"
    /\ ti > Len(TIMEFRAMES)
    /\ pc' = "sleep"
    /\ UNCHANGED <<env, clock, config, globals, locals, history>>

\* the symbol loop of a timeframe is over
SymbolsEnd ==
    /\ pc = "symbol"
    /\ si > Len(SYMBOLS)
    /\ ti' = ti + 1
    /\ pc' = "timeframe"
    /\ UNCHANGED <<env, clock, config, globals, minute, si, rsi, price,
                   prev_state, msg, direction, history>>

\* lines 189-192: the fetch of one pair, and the continue when rsi is None
Fetch ==
    /\ pc = "symbol"
    /\ si <= Len(SYMBOLS)
    /\ \E resp \in Responses :
         LET r == fetch_data(resp, api_rate_remaining)
             counted == r.rsi # None \/ resp.kind = "timeout"
         IN  /\ counted => events < MaxEvents
             /\ events' = IF counted THEN events + 1 ELSE events
             /\ api_rate_remaining' = r.api_rate_remaining
             /\ clock' = clock + FetchDuration(resp)
             /\ fetched' = Append(fetched, <<ti, si>>)
             /\ IF r.raised
                THEN /\ pc' = "error"
                     /\ UNCHANGED <<si, rsi, price>>
                ELSE IF r.rsi = None
                THEN /\ pc' = "symbol"
                     /\ si' = si + 1
                     /\ rsi' = None /\ price' = None
                ELSE /\ pc' = "warn"
                     /\ rsi' = r.rsi /\ price' = r.price
                     /\ UNCHANGED si
    /\ UNCHANGED <<env, config, last_alert_state, telegram_cache,
                   rate_limit_warning_sent, files, minute, ti, prev_state, msg,
                   direction, passes, prevClass, calls, lastPost, lastCall, logCalls, rsiCall>>

\* lines 194-206: the previous state of the key is read, and the low-quota
\* warning is sent when it is due
RateLimitWarning ==
    /\ pc = "warn"
    /\ prev_state' = Get(last_alert_state, CurrentKey, "neutral")
    /\ IF WarningDue(api_rate_remaining, rate_limit_warning_sent)
       THEN \E post \in PostOutcomes :
              LET text == WarningText(api_rate_remaining)
                  r == send_telegram(telegram_cache, text, clock,
                                     DefaultCooldown, post)
              IN  /\ post # "ok" => events < MaxEvents
                  /\ events' = IF post = "ok" THEN events ELSE events + 1
                  /\ telegram_cache' = r.cache
                  /\ calls' = [calls EXCEPT !.warns = @ + 1]
                  \* an exception of the call is swallowed by line 205
                  /\ rate_limit_warning_sent' = ~r.raised
       ELSE UNCHANGED <<telegram_cache, calls, rate_limit_warning_sent, events>>
    /\ pc' = "branch"
    /\ UNCHANGED <<env, clock, config, last_alert_state, api_rate_remaining, files,
                   minute, ti, si, rsi, price, msg, direction, passes,
                   prevClass, fetched, lastPost, lastCall, logCalls, rsiCall>>

\* lines 209-220 and 226-237: an alert is composed and handed to send_telegram
Alert ==
    /\ pc = "branch"
    /\ Branch(Val(rsi), RSI_UPPER, RSI_LOWER, prev_state) # "none"
    /\ \E post \in PostOutcomes :
         LET dir == Branch(Val(rsi), RSI_UPPER, RSI_LOWER, prev_state)
             text == AlertText(dir, Symbol, Timeframe, Val(rsi), Val(price),
                               api_rate_remaining)
             r == send_telegram(telegram_cache, text, clock, DefaultCooldown, post)
         IN  /\ post # "ok" => events < MaxEvents
             /\ events' = IF post = "ok" THEN events ELSE events + 1
             /\ direction' = dir
             /\ msg' = Some(text)
             /\ telegram_cache' = r.cache
             /\ calls' = [calls EXCEPT !.sends =
                             Append(@, [dir |-> dir, posted |-> r.posted])]
             /\ pc' = IF r.raised THEN "error" ELSE "log"
    /\ UNCHANGED <<env, clock, config, last_alert_state, api_rate_remaining,
                   rate_limit_warning_sent, files, minute, ti, si, rsi, price,
                   prev_state, passes, prevClass, fetched, lastPost,
                   lastCall, logCalls, rsiCall>>

\* lines 221 and 238: the record of the alert is handed to log_csv
LogAlert ==
    /\ pc = "log"
    /\ \E io \in LogOutcomes :
         LET r == log_csv(files, Symbol, Timeframe, Val(rsi), Val(price),
                          direction, clock, io)
         IN  /\ ~r.ok => events < MaxEvents
             /\ events' = IF r.ok THEN events ELSE events + 1
             /\ files' = r.files
             /\ calls' = [calls EXCEPT !.logs =
                             Append(@, [dir |-> direction, ok |-> r.ok])]
             /\ pc' = IF r.raised THEN "error" ELSE "store"
    /\ UNCHANGED <<env, clock, config, last_alert_state, telegram_cache,
                   api_rate_remaining, rate_limit_warning_sent, locals, passes,
                   prevClass, fetched, lastPost, lastCall, logCalls, rsiCall>>

\* lines 223 and 240: the new state of the key is stored
StoreAlertState ==
    /\ pc = "store"
    /\ last_alert_state' = (CurrentKey :> StateOf(direction)) @@ last_alert_state
    /\ prevClass' = (CurrentKey :> Classify(Val(rsi), RSI_UPPER, RSI_LOWER))
                         @@ prevClass
    /\ EvaluationOver
    /\ si' = si + 1
    /\ pc' = "symbol"
    /\ UNCHANGED <<env, clock, config, telegram_cache, api_rate_remaining,
                   rate_limit_warning_sent, files, minute, ti, passes, events,
                   fetched, lastPost, lastCall, logCalls, rsiCall>>

\* lines 242-243: no alert
NoAlert ==
    /\ pc = "branch"
    /\ Branch(Val(rsi), RSI_UPPER, RSI_LOWER, prev_state) = "none"
    /\ last_alert_state' = (CurrentKey :> NoAlertState) @@ last_alert_state
    /\ prevClass' = (CurrentKey :> Classify(Val(rsi), RSI_UPPER, RSI_LOWER))
                         @@ prevClass
    /\ EvaluationOver
    /\ si' = si + 1
    /\ pc' = "symbol"
    /\ UNCHANGED <<env, clock, config, telegram_cache, api_rate_remaining,
                   rate_limit_warning_sent, files, minute, ti, passes, events,
                   fetched, lastPost, lastCall, logCalls, rsiCall>>

\* line 245
Sleep ==
    /\ pc = "sleep"
    /\ clock' = clock + CHECK_INTERVAL
    /\ pc' = "pass"
    /\ UNCHANGED <<env, config, globals, locals, history>>

\* an unexpected exception is raised by a statement of the pass between two
\* pairs: control leaves the loops for line 247
Fault ==
    /\ pc = "symbol"
    /\ events < MaxEvents
    /\ events' = events + 1
    /\ pc' = "error"
    /\ UNCHANGED <<env, clock, config, globals, locals, passes, prevClass,
                   calls, fetched, lastPost, lastCall, logCalls, rsiCall>>

\* lines 247-249
ErrorSleep ==
    /\ pc = "error"
    /\ clock' = clock + ErrorDelay
    /\ pc' = AfterError
    /\ UNCHANGED <<env, config, globals, locals, history>>

Next ==
    \/ LoadConfig
    \/ PassStart \/ TimeframeSkip \/ TimeframeDue \/ PassEnd
    \/ SymbolsEnd \/ Fetch \/ RateLimitWarning
    \/ Alert \/ LogAlert \/ StoreAlertState \/ NoAlert
    \/ Sleep \/ Fault \/ ErrorSleep

Spec == Init /\ [][Next]_vars

\* the event loop runs the one task whenever it can take a step
LiveEnvs ==
    { BaseEnv,
      [BaseEnv EXCEPT !.SYMBOLS = Some(<<"A", "/", "B", ",", "C">>),
                      !.TIMEFRAMES = Some(TF5)] }
InitLive == \E e \in LiveEnvs, c \in StartClocks : InitWith(e, c)
SpecLive == InitLive /\ [][Next]_vars /\ WF_vars(Next)

\* the process started late in a minute before a candle closes (06:04:50
\* IST), with a timeframe that is due every minute after "5min"
TF1 == <<"1", "m", "i", "n">>
LateEnv == [BaseEnv EXCEPT !.TIMEFRAMES = Some(TF5 \o <<",">> \o TF1)]
LateStartClocks == {2090}
InitLate == \E c \in LateStartClocks : InitWith(LateEnv, c)
SpecLate == InitLate /\ [][Next]_vars

----------------------------------------------------------------------------
(* calculate_rsi on every series of a bounded set: the driver is started in  *)
(* the default configuration, and the fetch of its first pair gets the       *)
(* series as the closes of the response                                      *)

\* every sequence of at most n prices
SeriesUpTo(n) == UNION { [1..k -> 1..MaxPrice] : k \in 0..n }

\* the series and periods handed to the calculator: the short series with the
\* short periods, and with the period of the program series of
\* RSI_PERIOD + 1 closes, their prefixes, and each with one more close
RsiInputs ==
    { [closes |-> c, period |-> p] : c \in SeriesUpTo(MaxSeriesLen), p \in 1..MaxPeriod }
    \cup { [closes |-> Closes(u, d), period |-> RSI_PERIOD] :
              u \in 0..RSI_PERIOD, d \in 0..RSI_PERIOD }
    \cup { [closes |-> SubSeq(Closes(7, 3), 1, n), period |-> RSI_PERIOD] :
              n \in 0..RSI_PERIOD }
    \cup { [closes |-> Append(Closes(u, d), x), period |-> RSI_PERIOD] :
              u \in {0, 5, 14}, d \in {0, 5, 14}, x \in {99, 100, 101, 114} }

\* lines 152-158 and 189-192 with the closes and the period of rsiCall: the
\* response carries no quota header
FetchSeries ==
    /\ pc = "symbol"
    /\ si <= Len(SYMBOLS)
    /\ ~rsiCall.called
    /\ LET closes == rsiCall.closes
           result == calculate_rsi(closes, rsiCall.period)
           \* closes[-1] raises IndexError on an empty list: lines 160-162
           r == IF closes = << >> THEN None ELSE result
       IN  /\ rsiCall' = [rsiCall EXCEPT !.called = TRUE, !.result = result]
           /\ api_rate_remaining' = "N/A"
           /\ fetched' = Append(fetched, <<ti, si>>)
           /\ IF r = None
              THEN /\ pc' = "symbol"
                   /\ si' = si + 1
                   /\ rsi' = None /\ price' = None
              ELSE /\ pc' = "warn"
                   /\ rsi' = r /\ price' = Some(closes[Len(closes)])
                   /\ UNCHANGED si
    /\ UNCHANGED <<env, clock, config, last_alert_state, telegram_cache,
                   rate_limit_warning_sent, files, minute, ti, prev_state, msg,
                   direction, passes, events, prevClass, calls, lastPost,
                   lastCall, logCalls>>

NextRsi ==
    \/ LoadConfig \/ PassStart \/ TimeframeDue \/ FetchSeries
    \/ RateLimitWarning \/ Alert \/ LogAlert \/ StoreAlertState \/ NoAlert

InitRsi ==
    \E input \in RsiInputs, c \in StartClocks :
        /\ InitBase(BaseEnv, c)
        /\ rsiCall = [closes |-> input.closes, period |-> input.period,
                      called |-> FALSE, result |-> None]
SpecRsi == InitRsi /\ [][NextRsi]_vars

----------------------------------------------------------------------------
(* send_telegram on its own: any sequence of calls, the clock advancing      *)
(* between them                                                              *)

TestMessages == { <<"text", 1>>, <<"text", 2>> }
ClockSteps == {10, 20}

SendCall ==
    /\ clock < MaxSendClock
    /\ \E d \in ClockSteps, message \in TestMessages, post \in PostOutcomes :
         LET now == clock + d
             r == send_telegram(telegram_cache, message, now, DefaultCooldown, post)
         IN  /\ clock' = now
             /\ telegram_cache' = r.cache
             /\ lastCall' = Some([message |-> message, now |-> now,
                                  tried |-> r.tried, posted |-> r.posted])
             /\ lastPost' = IF r.posted THEN (message :> now) @@ lastPost
                            ELSE lastPost
    /\ UNCHANGED <<env, pc, config, last_alert_state, api_rate_remaining,
                   rate_limit_warning_sent, files, locals, passes, events,
                   prevClass, calls, fetched, logCalls, rsiCall>>

InitSend == InitWith(BaseEnv, 0)
SpecSend == InitSend /\ [][SendCall]_vars

----------------------------------------------------------------------------
(* log_csv on its own: any sequence of calls, starting from no files         *)

TestSymbols == { <<"A", "/", "B">>, <<"A", "_", "B">> }
\* the clocks of the calls: two on one day (IST), one on the next
LogClocks == {1800, 1860, 1800 + SecondsPerDay}

LogCall ==
    /\ logCalls < MaxLogCalls
    /\ logCalls' = logCalls + 1
    /\ \E c \in LogClocks, symbol \in TestSymbols, dir \in {"ABOVE", "BELOW"},
          io \in LogOutcomes :
         /\ c >= clock
         /\ clock' = c
         /\ files' = log_csv(files, symbol, TF5, 70 * Scale, 104, dir, c, io).files
         /\ calls' = [calls EXCEPT !.logs = <<[dir |-> dir,
                        ok |-> log_csv(files, symbol, TF5, 70 * Scale, 104, dir,
                                       c, io).ok]>>]
    /\ UNCHANGED <<env, pc, config, last_alert_state, telegram_cache,
                   api_rate_remaining, rate_limit_warning_sent, locals, passes,
                   events, prevClass, fetched, lastPost, lastCall, rsiCall>>

InitLog == \E c \in StartClocks : InitWith(BaseEnv, c)
SpecLog == InitLog /\ [][LogCall]_vars

----------------------------------------------------------------------------
(* The properties *)

\* the step ends the evaluation of a reading (lines 223, 240 or 243 ran)
EvaluationEnds == pc \in {"branch", "store"} /\ pc' = "symbol"

\* the classification of the previous reading of the key under evaluation;
\* "none" when it had none
PreviousClass == Get(prevClass, CurrentKey, "none")
CurrentClass == Classify(Val(rsi), RSI_UPPER, RSI_LOWER)

\* C1: with lower < upper, an alert is dispatched only when the classification
\* of the reading differs from that of the previous reading of its key: two
\* ABOVE alerts of a key are separated by a reading that is not above upper
\* (and the same for BELOW).
C1_EdgeTriggered ==
    [][(RSI_LOWER < RSI_UPPER /\ pc = "branch" /\ pc' = "log")
           => PreviousClass # CurrentClass]_vars

\* C2: with lower < upper, an evaluation follows the decision table: the state
\* stored is the classification of the reading (above, below, neutral), and a
\* transition is raised iff that is above or below and differs from the
\* previous state.
C2_DecisionTable ==
    [][(RSI_LOWER < RSI_UPPER /\ EvaluationEnds)
           => /\ last_alert_state'[CurrentKey] = CurrentClass
              /\ (pc = "store") <=>
                     (CurrentClass # "neutral" /\ CurrentClass # prev_state)]_vars

\* the evaluation ending here made exactly one call of send_telegram and one
\* of log_csv, both with the direction dir
DispatchedOnce(dir) ==
    /\ pc = "store"
    /\ Len(calls.sends) = 1 /\ calls.sends[1].dir = dir
    /\ Len(calls.logs) = 1 /\ calls.logs[1].dir = dir

\* C3: no crossing is missed: when a reading classifies as above or below and
\* the previous reading of its key classified differently (or there was none),
\* its evaluation hands one notification and one record of that direction to
\* send_telegram and log_csv.  (The classification is a function of the
\* reading when lower <= upper.)
C3_NoCrossingMissed ==
    [][(/\ RSI_LOWER <= RSI_UPPER
        /\ EvaluationEnds
        /\ CurrentClass # "neutral"
        /\ CurrentClass # PreviousClass)
           => DispatchedOnce(IF CurrentClass = "above" THEN "ABOVE" ELSE "BELOW")]_vars

\* a reading below lower follows one above upper, and its alert went out
C3_Witness ==
    /\ RSI_LOWER < RSI_UPPER
    /\ pc = "store"
    /\ PreviousClass = "above" /\ CurrentClass = "below"
    /\ DispatchedOnce("BELOW")
    /\ calls.sends[1].posted /\ calls.logs[1].ok

\* a timeframe string of the form "Nmin", and its N
Digits == <<"0", "1", "2", "3", "4", "5", "6", "7", "8", "9">>
IsDigit(c) == \E i \in 1..10 : Digits[i] = c
DigitValue(c) == (CHOOSE i \in 1..10 : Digits[i] = c) - 1
RECURSIVE NumberOf(_)
NumberOf(ds) ==
    IF ds = << >> THEN 0
    ELSE 10 * NumberOf(SubSeq(ds, 1, Len(ds) - 1)) + DigitValue(ds[Len(ds)])
IsMinutes(tf) ==
    /\ Len(tf) > 3
    /\ SubSeq(tf, Len(tf) - 2, Len(tf)) = <<"m", "i", "n">>
    /\ \A i \in 1..(Len(tf) - 3) : IsDigit(tf[i])
MinutesOf(tf) == NumberOf(SubSeq(tf, 1, Len(tf) - 3))

\* C4: a configured timeframe "Nmin" has its symbols evaluated in a pass taken
\* at minute m iff m % N = 0.
C4_DueIffMultiple ==
    [][(pc = "timeframe" /\ ti <= Len(TIMEFRAMES) /\ IsMinutes(Timeframe))
           => ((pc' = "symbol") <=> (minute % MinutesOf(Timeframe) = 0))]_vars

\* the timeframes of the pass that are not passed over at its minute
DueTimeframes == { t \in 1..Len(TIMEFRAMES) : ~Skipped(TIMEFRAMES[t], minute) }

\* C5: a fetch that yields no reading skips its pair for this pass only: the
\* pair is fetched once, the stored states, the cache and the files are left
\* as they are, nothing is dispatched, and the loop goes on to the next pair;
\* a pass that ends has fetched every due pair once.
C5_UnavailableSkipped ==
    [][/\ (pc = "symbol" /\ fetched' # fetched)
            => /\ fetched' = Append(fetched, <<ti, si>>)
               /\ \A i \in 1..Len(fetched) : fetched[i] # <<ti, si>>
               /\ rsi' = None
                    => /\ pc' = "symbol" /\ ti' = ti /\ si' = si + 1
                       /\ last_alert_state' = last_alert_state
                       /\ prevClass' = prevClass
                       /\ telegram_cache' = telegram_cache
                       /\ files' = files
                       /\ calls' = NoCalls
       /\ (pc = "timeframe" /\ pc' = "sleep")
            => Len(fetched) = Cardinality(DueTimeframes) * Len(SYMBOLS)]_vars

\* the first pair of a pass was skipped and the second is being evaluated
C5_Witness ==
    /\ pc = "warn"
    /\ passes = 1
    /\ fetched = << <<1, 1>>, <<ti, si>> >>
    /\ prevClass = << >>
    /\ last_alert_state = << >>

\* C6: the two dispatches of a transition are independent: whatever the
\* outcome of send_telegram, log_csv is called next, once; whatever the outcome
\* of log_csv, the notification and the cache stay as they are and the new
\* state is stored next; neither failure leaves the pass.
C6_IndependentDispatch ==
    [][/\ (pc = "branch" /\ calls'.sends # calls.sends)
            => /\ pc' = "log"
               /\ Len(calls'.sends) = 1 /\ Len(calls'.logs) = 0
               /\ files' = files
       /\ pc = "log"
            => /\ pc' = "store"
               /\ Len(calls'.logs) = 1
               /\ calls'.sends = calls.sends
               /\ telegram_cache' = telegram_cache
       /\ pc = "store" => pc' = "symbol"]_vars

\* the notification failed and the record was written
C6_Witness ==
    /\ pc = "store"
    /\ ~calls.sends[1].posted
    /\ calls.logs[1].ok
    /\ \E f \in DOMAIN files : files[f][Len(files[f])].kind = "data"

\* C7: the loop never ends on an error: from every state of the loop, a new
\* evaluation pass starts (while the model's bound on passes allows one).
C7_PassesGoOn ==
    \A n \in 0..(MaxPasses - 1) :
        (pc \notin {"load", "crashed"} /\ passes = n)
            ~> (pc = "timeframe" /\ passes = n + 1)

\* a pass was left by an exception and, after the delay, the next one started
C7_Witness ==
    /\ pc = "timeframe"
    /\ passes = 2
    /\ \E c \in StartClocks : clock = c + ErrorDelay

\* C9: the loop runs with RSI_LOWER < RSI_UPPER only.
C9_ThresholdsOrdered ==
    pc \notin {"load", "crashed"} => RSI_LOWER < RSI_UPPER

\* C8: the same text is not posted twice within the cooldown: a call that
\* posts a text posted before reads a clock at least the cooldown after the
\* clock read by the call of that post, and a call made sooner with that text
\* returns without posting.
C8_NoRepeatWithinCooldown ==
    [][lastCall' # lastCall
          => LET c == Val(lastCall')
             IN  c.message \in DOMAIN lastPost
                   => /\ c.posted => c.now - lastPost[c.message] >= DefaultCooldown
                      /\ c.now - lastPost[c.message] < DefaultCooldown
                           => ~c.tried /\ ~c.posted]_vars

\* a text was posted, and a call with it made 20 s later returned without
\* posting
C8_Witness ==
    /\ lastCall # None
    /\ ~Val(lastCall).tried
    /\ Val(lastCall).message \in DOMAIN lastPost
    /\ Val(lastCall).now - lastPost[Val(lastCall).message] = 20

\* C10: every file that holds rows has one header row, its first, and data
\* rows after it.
C10_OneHeaderFirst ==
    \A f \in DOMAIN files :
        Len(files[f]) > 0
            => /\ files[f][1].kind = "header"
               /\ \A i \in 2..Len(files[f]) : files[f][i].kind = "data"

\* the current evaluation holds a reading that the comparisons of lines 209
\* and 226 read
ReadingInUse == pc \in {"warn", "branch", "log", "store"}

\* C11: calculate_rsi returns None for every series of fewer than period + 1
\* closes and a number for every series of at least period + 1 closes, and
\* the evaluation that compares the reading with the thresholds never holds
\* None.
C11_UndefinedIffShort ==
    /\ rsiCall.called
         => /\ (rsiCall.result = None) <=> (Len(rsiCall.closes) < rsiCall.period + 1)
            /\ rsiCall.result # None
                 => Len(rsiCall.result) = 1 /\ Val(rsiCall.result) \in Int
    /\ ReadingInUse => rsi # None /\ Val(rsi) \in Int

\* a series of exactly RSI_PERIOD + 1 closes gave a number, which is being
\* compared with the thresholds
C11_Witness ==
    /\ rsiCall.called
    /\ rsiCall.period = RSI_PERIOD
    /\ Len(rsiCall.closes) = RSI_PERIOD + 1
    /\ pc = "branch"
    /\ rsi = rsiCall.result /\ rsi # None

\* no close of the series is lower than the close before it
NoDecrease(closes) == \A i \in 1..(Len(closes) - 1) : closes[i + 1] >= closes[i]

\* C12: for every series of more than period closes without a decrease, the
\* smoothed avg_loss is 0 and calculate_rsi returns exactly 100.
C12_NoDecreaseGives100 ==
    (/\ rsiCall.called
     /\ Len(rsiCall.closes) > rsiCall.period
     /\ NoDecrease(rsiCall.closes))
        => /\ Averages(rsiCall.closes, rsiCall.period).loss = 0
           /\ rsiCall.result = Some(100 * Scale)

\* a rising series long enough for the smoothing loop to run gave 100
C12_Witness ==
    /\ rsiCall.called
    /\ Len(rsiCall.closes) > rsiCall.period + 1
    /\ NoDecrease(rsiCall.closes)
    /\ rsiCall.closes[Len(rsiCall.closes)] > rsiCall.closes[1]
    /\ rsiCall.result = Some(100 * Scale)

\* C14: every number calculate_rsi returns lies in [0, 100].
C14_RsiInRange ==
    (rsiCall.called /\ rsiCall.result # None)
        => Val(rsiCall.result) >= 0 /\ Val(rsiCall.result) <= 100 * Scale

\* a series with gains and losses gave a value strictly inside the range that
\* round() had to round
C14_Witness ==
    /\ rsiCall.called
    /\ rsiCall.result # None
    /\ Val(rsiCall.result) > 0 /\ Val(rsiCall.result) < 100 * Scale
    /\ Val(rsiCall.result) % Scale # 0
    /\ Len(rsiCall.closes) > rsiCall.period + 1

\* C13: the evaluation loop never runs with a required value missing: the API
\* key, the bot token, the chat id and the symbol list are all set whenever the
\* process is past its startup.
C13_RequiredConfigPresent ==
    pc \notin {"load", "crashed"}
        => /\ API_KEY # None /\ BOT_TOKEN # None /\ CHAT_ID # None
           /\ env.SYMBOLS # None

\* the timeframe loop is at a timeframe other than "5min" and "15min"
AtOtherTimeframe ==
    pc = "timeframe" /\ ti <= Len(TIMEFRAMES) /\ Timeframe \notin {TF5, TF15}

\* C15 as stated: a timeframe other than "5min" and "15min" is never
\* triggered: in no pass does the driver go on to its symbols, and no fetch is
\* made for it.
C15_OtherNeverTriggered ==
    [][/\ AtOtherTimeframe => pc' # "symbol"
       /\ (fetched' # fetched /\ pc = "symbol") => Timeframe \in {TF5, TF15}]_vars

\* C15 as amended: a timeframe other than "5min" and "15min" is triggered in
\* every pass, at any minute: the driver goes on to its symbols, from the
\* first one.
C15_OtherAlwaysTriggered ==
    [][AtOtherTimeframe => pc' = "symbol" /\ si' = 1 /\ ti' = ti]_vars

\* "30min" is under evaluation in a pass taken at a minute that is not a
\* multiple of 30
C15_Witness ==
    /\ pc = "warn"
    /\ Timeframe = TF30
    /\ minute % 30 # 0
    /\ fetched = << <<ti, si>> >>

AlertStates == {"neutral", "above", "below"}

\* the key of the pair under evaluation: its symbol and its timeframe
EvaluatedKey == Symbol \o <<"_">> \o Timeframe

\* C16: the stored states change with the evaluation of a key only, and only
\* at that key: a key has an entry only once a reading of it was evaluated;
\* the evaluation of a reading of key k ends by writing one of neutral, above,
\* below at k and leaves every other entry as it is; no other step changes the
\* map.
C16_OnlyOwnAlertState ==
    [][/\ DOMAIN last_alert_state' = DOMAIN prevClass'
       /\ EvaluationEnds
            => /\ rsi # None
               /\ DOMAIN last_alert_state' = DOMAIN last_alert_state \cup {EvaluatedKey}
               /\ last_alert_state'[EvaluatedKey] \in AlertStates
               /\ \A k \in DOMAIN last_alert_state :
                      k # EvaluatedKey => last_alert_state'[k] = last_alert_state[k]
       /\ ~EvaluationEnds => last_alert_state' = last_alert_state]_vars

\* the keys of two pairs hold different states: the evaluation of the second
\* wrote its own entry and left the first
C16_Witness ==
    /\ pc = "symbol"
    /\ Cardinality(DOMAIN last_alert_state) = 2
    /\ \E k1, k2 \in DOMAIN last_alert_state :
          last_alert_state[k1] = "above" /\ last_alert_state[k2] = "neutral"

\* a timeframe "5min" or "15min" of the configuration closes a candle at
\* minute m
CandleCloses(m) ==
    \E t \in 1..Len(TIMEFRAMES) :
        \/ TIMEFRAMES[t] = TF5 /\ m % 5 = 0
        \/ TIMEFRAMES[t] = TF15 /\ m % 15 = 0

\* C17: with CHECK_INTERVAL = 60, every minute at which a candle of a 5min or
\* 15min timeframe closes is the minute read by exactly one pass: a pass that
\* follows another does not read the same candle-close minute again, and no
\* candle-close minute lies between the minutes the two read (the runs of the
\* model are shorter than an hour).
C17_OnePassPerCandleClose ==
    [][(CHECK_INTERVAL = 60 /\ pc = "pass" /\ pc' = "timeframe" /\ passes >= 1)
           => LET gap == (minute' - minute) % 60
              IN  /\ gap = 0 => ~CandleCloses(minute')
                  /\ \A j \in 1..(gap - 1) : ~CandleCloses((minute + j) % 60)]_vars

\* the state named by the direction of an alert
Named(dir) == IF dir = "ABOVE" THEN "above" ELSE "below"

\* C18: the state of the key is set to the direction of a transition after
\* both dispatch calls returned, whatever their outcome, and not before; and
\* (with lower <= upper) the next reading of the key, when it classifies as the
\* state so stored, dispatches nothing.
C18_StateAfterDispatch ==
    [][/\ pc \in {"warn", "log"} => last_alert_state' = last_alert_state
       /\ (pc = "branch" /\ pc' = "log") => last_alert_state' = last_alert_state
       /\ pc = "store"
            => /\ Len(calls.sends) = 1 /\ Len(calls.logs) = 1
               /\ last_alert_state'[EvaluatedKey] = Named(direction)
               /\ pc' = "symbol"
       /\ (/\ RSI_LOWER <= RSI_UPPER
           /\ pc = "branch"
           /\ EvaluatedKey \in DOMAIN last_alert_state
           /\ last_alert_state[EvaluatedKey] # "neutral"
           /\ CurrentClass = last_alert_state[EvaluatedKey])
            => /\ pc' = "symbol"
               /\ telegram_cache' = telegram_cache /\ files' = files]_vars

\* an ABOVE transition whose notification failed (no post has ever returned)
\* left the state above, and the next reading of the key, above again, was
\* evaluated without a dispatch: one record is in the files
C18_Witness ==
    /\ pc = "symbol"
    /\ si > Len(SYMBOLS)
    /\ Key(SYMBOLS[1], Timeframe) \in DOMAIN last_alert_state
    /\ last_alert_state[Key(SYMBOLS[1], Timeframe)] = "neutral"
    /\ prevClass[Key(SYMBOLS[1], Timeframe)] = "above"
    /\ telegram_cache = << >>
    /\ \A f \in DOMAIN files : Len(files[f]) <= 2
    /\ RSI_LOWER < RSI_UPPER

\* C19: the cache changes only on a post that returned: a call of
\* send_telegram that posted stores the clock it read under its text and leaves
\* the other entries; a call that was suppressed, or whose post raised, leaves
\* the cache as it was.
C19_CacheOnlyOnPost ==
    [][lastCall' # lastCall
          => LET c == Val(lastCall')
             IN  IF c.posted
                 THEN /\ DOMAIN telegram_cache' = DOMAIN telegram_cache \cup {c.message}
                      /\ telegram_cache'[c.message] = c.now
                      /\ \A m \in DOMAIN telegram_cache :
                            m # c.message => telegram_cache'[m] = telegram_cache[m]
                 ELSE telegram_cache' = telegram_cache]_vars

\* a text was posted; a later call with it, past the cooldown, tried to post
\* and failed, and the cache still holds the clock of the first post
C19_Witness ==
    /\ lastCall # None
    /\ Val(lastCall).tried /\ ~Val(lastCall).posted
    /\ Val(lastCall).message \in DOMAIN telegram_cache
    /\ Val(lastCall).now - telegram_cache[Val(lastCall).message] >= DefaultCooldown

\* C20: the low-quota warning is attempted at most once: the flag
\* rate_limit_warning_sent is never reset, a warning is sent only while it is
\* false, and sending one sets it, whatever the send did.
C20_WarningOnce ==
    [][/\ rate_limit_warning_sent => rate_limit_warning_sent'
       /\ calls'.warns > calls.warns
            => /\ ~rate_limit_warning_sent /\ rate_limit_warning_sent'
               /\ calls'.warns = 1
       /\ (pc = "warn" /\ rate_limit_warning_sent)
            => calls'.warns = calls.warns /\ telegram_cache' = telegram_cache]_vars

\* the one warning failed to post, and a later reading that sees the quota
\* low again goes on without a warning
C20_Witness ==
    /\ pc = "branch"
    /\ rate_limit_warning_sent
    /\ api_rate_remaining = "10"
    /\ calls.warns = 0
    /\ WarningText(api_rate_remaining) \notin DOMAIN telegram_cache

=============================================================================
